---- MODULE Spec2Model ----
(***************************************************************************)
(* A model of the WHOOP client of meathead-mode:                           *)
(*   src/utils/resources/whoop.py  (class Whoop)                           *)
(*   src/utils/auth.py             (class OAuthCallbackHandler)            *)
(*                                                                         *)
(* The state is the config store (the JSON files the class methods read    *)
(* and write), the class attribute OAuthCallbackHandler.callback_code, the *)
(* local callback listener, and a record of what the operation that ran    *)
(* last did: the outbound HTTP calls it made, what it logged and how it    *)
(* ended.  The environment (the upstream API, the token endpoint, the      *)
(* browser redirect) answers with values drawn from small sets.  Every     *)
(* HTTP exchange is taken to return a response whose body is a JSON        *)
(* object; transport failures are outside the model.                       *)
(***************************************************************************)
EXTENDS Naturals, Sequences, FiniteSets

VARIABLES
    files,          \* the config store: path -> file
    callback_code,  \* OAuthCallbackHandler.callback_code (class attribute)
    pc,             \* position of the (single) thread of control
    frame,          \* the caller waiting for _get_callback_code
    listener,       \* the bound TCPServer, or NoListener
    browser,        \* URLs handed to webbrowser.open by the last operation
    served,         \* requests the listener handled in the last operation
    call,           \* the operation invoked last and its arguments
    http,           \* outbound HTTP calls of the last operation, in order
    logs,           \* log entries of the last operation, in order
    ret             \* how the last operation ended

vars == <<files, callback_code, pc, frame, listener, browser, served,
          call, http, logs, ret>>

----------------------------------------------------------------------------
(* Bounds of the model *)

NumTokens == 2
NumCodes == 2
MaxQuery == 2

TokenPool == <<"tok1", "tok2", "tok3", "tok4">>
RefreshPool == <<"rt1", "rt2", "rt3", "rt4">>
CodePool == <<"c1", "c2", "c3", "c4">>

Issues == 1..NumTokens
Codes == {CodePool[i] : i \in 1..NumCodes}

----------------------------------------------------------------------------
(* Python values: None, str, int *)

PyNone == [t |-> "None", s |-> "", n |-> 0]
PyStr(s) == [t |-> "str", s |-> s, n |-> 0]
PyInt(n) == [t |-> "int", s |-> "", n |-> n]

\* str(v) as an f-string renders it
format(v) ==
    IF v.t = "None" THEN "None" ELSE IF v.t = "str" THEN v.s ELSE "<int>"

(* dict operations *)
EmptyDict == [k \in {} |-> PyNone]
get(d, k) == IF k \in DOMAIN d THEN d[k] ELSE PyNone
setitem(d, k, v) == [x \in (DOMAIN d) \cup {k} |-> IF x = k THEN v ELSE d[x]]
pop(d, k) == [x \in (DOMAIN d) \ {k} |-> d[x]]

----------------------------------------------------------------------------
(* JSON text of the config file: an object whose members are null or      *)
(* string                                                                  *)

JNull == [j |-> "null", v |-> ""]
JString(s) == [j |-> "string", v |-> s]

\* a dump that writes str(v): None becomes the string "None"
json_dump_value_str(v) == JString(format(v))

json_dump_value(v) == IF v.t = "None" THEN JNull ELSE JString(v.s)
json_load_value(x) == IF x.j = "null" THEN PyNone ELSE PyStr(x.v)

json_dump(d) == [k \in DOMAIN d |-> json_dump_value(d[k])]
json_load(o) == [k \in DOMAIN o |-> json_load_value(o[k])]

DEFAULT_CONFIG == "config.json"
ALT_CONFIG == "alt.json"
Paths == {DEFAULT_CONFIG, ALT_CONFIG}

AbsentFile == [kind |-> "absent", obj |-> EmptyDict]
InvalidFile == [kind |-> "invalid", obj |-> EmptyDict]
JsonFile(obj) == [kind |-> "json", obj |-> obj]

Log(level, msg, keys) == [level |-> level, msg |-> msg, keys |-> keys]

\* open(config_filepath, "w"); json.dump(params, f)
write_config(fs, path, params) ==
    [fs EXCEPT ![path] = JsonFile(json_dump(params))]

\* Whoop._load_config: the dict and what it logs
_load_config(fs, path) ==
    IF fs[path].kind = "json"
    THEN [config |-> json_load(fs[path].obj),
          logs |-> <<Log("debug", "Configuration loaded", <<>>)>>]
    ELSE IF fs[path].kind = "absent"
    THEN [config |-> EmptyDict,
          logs |-> <<Log("error", "Configuration file not found", <<>>)>>]
    ELSE [config |-> EmptyDict,
          logs |-> <<Log("error", "Error decoding JSON", <<>>)>>]

\* Whoop._fetch_access_token: the value returned and what is logged
_fetch_access_token(fs, path) ==
    LET loaded == _load_config(fs, path)
        token == get(loaded.config, "access_token")
    IN  IF token = PyNone
        THEN [value |-> PyNone,
              logs |-> loaded.logs \o
                       <<Log("error", "Access token not found in config", <<>>)>>]
        ELSE [value |-> token, logs |-> loaded.logs]

----------------------------------------------------------------------------
(* The environment: upstream HTTP responses *)

TOKEN_URL == "https://api.prod.whoop.com/oauth/oauth2/token"
BASE_URL == "https://api.prod.whoop.com/developer/v2"

\* bodies of the token endpoint: no tokens (an error body), an access
\* token alone, or the i-th access token with the i-th refresh token
TokenPair(i) ==
    [k \in {"access_token", "refresh_token"} |->
        IF k = "access_token" THEN PyStr(TokenPool[i]) ELSE PyStr(RefreshPool[i])]

TokenBodies ==
    {EmptyDict}
    \cup {[k \in {"access_token"} |-> PyStr(TokenPool[i])] : i \in Issues}
    \cup {TokenPair(i) : i \in Issues}

TokenResponses == {[status |-> st, body |-> b] : st \in {200, 400}, b \in TokenBodies}

\* bodies of the resource endpoints
RecordA == [id |-> "r1"]
GetBodies == {[records |-> <<RecordA>>], [user_id |-> "u1"]}

GetResponses ==
    {[status |-> 200, body |-> b] : b \in GetBodies}
    \cup {[status |-> st, body |-> [error |-> "e"]] : st \in {401, 500}}

\* an outbound call and the response to it
Request(method, url, auth, data, res) ==
    [method |-> method, url |-> url, auth |-> auth, data |-> data,
     status |-> res.status, body |-> res.body]

----------------------------------------------------------------------------
(* Whoop.refresh_access_tokens(config_filepath), the token endpoint        *)
(* answering res: the store afterwards, the POST it made, its log          *)

\* token fields that are set only from a successful response
store_tokens_if_ok(params, res) ==
    IF res.status >= 400 THEN params
    ELSE setitem(setitem(params, "access_token", get(res.body, "access_token")),
                 "refresh_token", get(res.body, "refresh_token"))

\* lines 189-190 (and 136-137): both token fields are set from the body
store_tokens(params, res) ==
    LET params1 == setitem(params, "access_token", get(res.body, "access_token"))
    IN  setitem(params1, "refresh_token", get(res.body, "refresh_token"))

refresh_access_tokens(fs, path, res) ==
    LET loaded == _load_config(fs, path)
        params == loaded.config
        refresh_params ==
            [k \in {"grant_type", "client_id", "client_secret", "scope", "refresh_token"} |->
                CASE k = "grant_type" -> PyStr("refresh_token")
                  [] k = "client_id" -> get(params, "client_id")
                  [] k = "client_secret" -> get(params, "client_secret")
                  [] k = "scope" -> PyStr("offline")
                  [] k = "refresh_token" -> get(params, "refresh_token")]
    IN  [files |-> write_config(fs, path, store_tokens(params, res)),
         http |-> <<Request("POST", TOKEN_URL, "", refresh_params, res)>>,
         logs |-> loaded.logs]

----------------------------------------------------------------------------
(* Whoop.check_config(config_filepath): what it logs *)

required_keys == <<"client_id", "client_secret", "redirect_uri", "access_token", "refresh_token">>

\* a filter that tests only the presence of the key
is_missing_absent_only(config, key) == key \notin DOMAIN config

is_missing(config, key) ==
    key \notin DOMAIN config \/ config[key] \in {PyNone, PyStr("")}

RECURSIVE missing_from(_, _, _)
missing_from(config, keys, i) ==
    IF i > Len(keys) THEN <<>>
    ELSE (IF is_missing(config, keys[i]) THEN <<keys[i]>> ELSE <<>>)
         \o missing_from(config, keys, i + 1)

check_config(fs, path) ==
    LET loaded == _load_config(fs, path)
        missing_keys == missing_from(loaded.config, required_keys, 1)
    IN  IF missing_keys # <<>>
        THEN loaded.logs \o <<Log("warning", "Missing or empty keys in config", missing_keys)>>
        ELSE loaded.logs \o <<Log("info", "All required configuration keys are present", <<>>)>>

----------------------------------------------------------------------------
(* Whoop.get_records(record_type, config_filepath) *)

ValidRecordTypes == {"sleep", "workout", "profile", "recovery"}
RecordTypes == ValidRecordTypes \cup {"cycle", ""}

UNBOUND == "<unbound local>"

\* a chain whose last branch is an else
endpoint_with_default(record_type) ==
    CASE record_type = "sleep" -> BASE_URL \o "/activity/sleep"
      [] record_type = "workout" -> BASE_URL \o "/activity/workout"
      [] record_type = "profile" -> BASE_URL \o "/user/profile/basic"
      [] OTHER -> BASE_URL \o "/recovery"

\* lines 198-207: the local url after the if/elif chain; the else branch
\* only logs and leaves it unbound
endpoint(record_type) ==
    CASE record_type = "sleep" -> BASE_URL \o "/activity/sleep"
      [] record_type = "workout" -> BASE_URL \o "/activity/workout"
      [] record_type = "profile" -> BASE_URL \o "/user/profile/basic"
      [] record_type = "recovery" -> BASE_URL \o "/recovery"
      [] OTHER -> UNBOUND

url_is_bound(record_type) == endpoint(record_type) # UNBOUND

\* a refresh on every failed response
needs_refresh_on_any_error(res) == res.status # 200

\* line 216: whether the first response sends the call into the refresh branch
needs_refresh(res) == res.status = 401

\* a result selection without the profile case
records_of_no_profile_case(record_type, res) ==
    IF res.status # 200 THEN <<>>
    ELSE IF "records" \in DOMAIN res.body THEN res.body["records"] ELSE <<>>

\* lines 226-232: the value returned for the final response
records_of(record_type, res) ==
    IF res.status # 200 THEN <<>>
    ELSE IF record_type = "profile" THEN <<res.body>>
    ELSE IF "records" \in DOMAIN res.body THEN res.body["records"] ELSE <<>>

Returned(v) == [kind |-> "return", exc |-> "", value |-> v]
Raised(e) == [kind |-> "raise", exc |-> e, value |-> <<>>]
NoResult == [kind |-> "none", exc |-> "", value |-> <<>>]

\* the GET of lines 209-214 and 219-224
bearer_get(fs, record_type, path, res) ==
    LET tok == _fetch_access_token(fs, path)
    IN  [http |-> <<Request("GET", endpoint(record_type),
                            "Bearer " \o format(tok.value), EmptyDict, res)>>,
         logs |-> tok.logs]

\* a retry that loops while the answer is 401 (here: once more)
refresh_and_retry_while_401(fs, record_type, path, tres, res2) ==
    LET refreshed == refresh_access_tokens(fs, path, tres)
        second == bearer_get(refreshed.files, record_type, path, res2)
        refreshed2 == refresh_access_tokens(refreshed.files, path, tres)
        third == bearer_get(refreshed2.files, record_type, path, res2)
        looped == res2.status = 401
    IN  [files |-> IF looped THEN refreshed2.files ELSE refreshed.files,
         http |-> IF looped
                  THEN refreshed.http \o second.http \o refreshed2.http \o third.http
                  ELSE refreshed.http \o second.http,
         logs |-> <<Log("warning", "Access token expired, refreshing", <<>>)>>
                  \o refreshed.logs \o second.logs,
         res |-> res2]

\* a retry that sends the token read before the refresh
refresh_and_retry_stale_token(fs, record_type, path, tres, res2) ==
    LET refreshed == refresh_access_tokens(fs, path, tres)
        second == bearer_get(fs, record_type, path, res2)
    IN  [files |-> refreshed.files,
         http |-> refreshed.http \o second.http,
         logs |-> <<Log("warning", "Access token expired, refreshing", <<>>)>>
                  \o refreshed.logs \o second.logs,
         res |-> res2]

\* lines 217-224, the body of the 401 branch: one refresh, one more GET
refresh_and_retry(fs, record_type, path, tres, res2) ==
    LET refreshed == refresh_access_tokens(fs, path, tres)
        second == bearer_get(refreshed.files, record_type, path, res2)
    IN  [files |-> refreshed.files,
         http |-> refreshed.http \o second.http,
         logs |-> <<Log("warning", "Access token expired, refreshing", <<>>)>>
                  \o refreshed.logs \o second.logs,
         res |-> res2]

\* the whole call, the upstream answering res1 to the first GET, tres to the
\* refresh POST and res2 to the second GET (the last two are read only on 401)
get_records(fs, record_type, path, res1, tres, res2) ==
    IF ~url_is_bound(record_type)
    THEN [files |-> fs, http |-> <<>>,
          logs |-> <<Log("error", "Invalid record type", <<>>)>>,
          ret |-> Raised("UnboundLocalError")]
    ELSE
        LET first == bearer_get(fs, record_type, path, res1)
            again == refresh_and_retry(fs, record_type, path, tres, res2)
            retried == needs_refresh(res1)
            final == IF retried THEN again.res ELSE res1
            fs1 == IF retried THEN again.files ELSE fs
            http1 == IF retried THEN first.http \o again.http ELSE first.http
            logs1 == IF retried THEN first.logs \o again.logs ELSE first.logs
            logs2 == IF final.status # 200
                     THEN logs1 \o <<Log("error", "Error fetching records", <<>>)>>
                     ELSE logs1
        IN  [files |-> fs1, http |-> http1, logs |-> logs2,
             ret |-> Returned(records_of(record_type, final))]

----------------------------------------------------------------------------
(* OAuthCallbackHandler and the local listener *)

Whoop_STATE == "st-secret"
DEFAULT_PORT == 8080
SCOPES == "read:recovery read:cycles read:workout read:sleep read:profile offline"

\* the query string of an inbound request: name=value pairs in order
QueryParams ==
    {[name |-> "code", value |-> v] : v \in {""} \cup Codes}
    \cup {[name |-> "state", value |-> v] : v \in {Whoop_STATE, "forged"}}

RECURSIVE SeqsUpTo(_, _)
SeqsUpTo(S, n) ==
    IF n = 0 THEN {<<>>}
    ELSE LET shorter == SeqsUpTo(S, n - 1)
         IN  shorter \cup {Append(q, x) : q \in {r \in shorter : Len(r) = n - 1}, x \in S}

Queries == SeqsUpTo(QueryParams, MaxQuery)

\* urllib.parse.parse_qs: blank values are dropped, the values of a name
\* are listed in the order of the query string
parse_qs(query) ==
    LET HasValue(p) == p.value # ""
        kept == SelectSeq(query, HasValue)
        names == {kept[i].name : i \in DOMAIN kept}
        values(nm) ==
            LET Named(p) == p.name = nm
                sel == SelectSeq(kept, Named)
            IN  [i \in 1..Len(sel) |-> sel[i].value]
    IN  [nm \in names |-> values(nm)]

\* a handler that accepts a code only with the state that was sent
do_GET_checks_state(cb, query) ==
    LET params == parse_qs(query)
    IN  IF /\ "code" \in DOMAIN params
           /\ "state" \in DOMAIN params
           /\ params["state"][1] = Whoop_STATE
        THEN [callback_code |-> PyStr(params["code"][1]), status |-> 200,
              body |-> "Authorization successful! You can close this window."]
        ELSE [callback_code |-> cb, status |-> 400,
              body |-> "Missing authorization code in the callback URL."]

\* OAuthCallbackHandler.do_GET: the class attribute afterwards and the
\* response sent
do_GET(cb, query) ==
    LET params == parse_qs(query)
    IN  IF "code" \in DOMAIN params
        THEN [callback_code |-> PyStr(params["code"][1]), status |-> 200,
              body |-> "Authorization successful! You can close this window."]
        ELSE [callback_code |-> cb, status |-> 400,
              body |-> "Missing authorization code in the callback URL."]

NoListener == [bound |-> FALSE, port |-> 0]
Listener(port) == [bound |-> TRUE, port |-> port]

\* a listener left open when its block is left
server_close_skipped(l) == l

\* line 86: leaving the with block, by return or by exception, closes httpd
server_close(l) == NoListener

\* socketserver.TCPServer(("", port), ...): binding needs an integer port
can_bind(port) == port.t = "int"

NoFrame == [caller |-> "none", path |-> "", params |-> EmptyDict]
Frame(caller, path, params) == [caller |-> caller, path |-> path, params |-> params]

\* lines 91-102: the authorization URL, or the KeyError of params[...]
auth_url(params) ==
    [client_id |-> params["client_id"], redirect_uri |-> params["redirect_uri"],
     scope |-> SCOPES, state |-> Whoop_STATE, response_type |-> "code"]

\* init_auth_flow, lines 123-144, once _get_callback_code has returned code:
\* the token endpoint answers res
exchange_code(fs, path, params, code, res) ==
    LET data == setitem(params, "code", code)
        post == <<Request("POST", TOKEN_URL, "", data, res)>>
        kept == pop(pop(data, "grant_type"), "code")
        params2 == store_tokens(kept, res)
    IN  IF res.status >= 400
        THEN [files |-> fs, http |-> post, logs |-> <<>>, ret |-> Raised("HTTPError")]
        ELSE [files |-> write_config(fs, path, params2), http |-> post,
              logs |-> <<Log("info", "Authentication flow complete", <<>>)>>,
              ret |-> Returned(PyNone)]

----------------------------------------------------------------------------
(* The state machine *)

client_id_of(path) == IF path = DEFAULT_CONFIG THEN "client-A" ELSE "client-B"

Credentials(path) ==
    [k \in {"client_id", "client_secret", "redirect_uri"} |->
        CASE k = "client_id" -> JString(client_id_of(path))
          [] k = "client_secret" -> JString("secret")
          [] k = "redirect_uri" -> JString("http://localhost:8080/callback")]

\* the template of the _load_config docstring, filled in
TemplateFile(path) ==
    JsonFile([k \in DOMAIN Credentials(path) \cup {"access_token", "refresh_token"} |->
                 IF k \in DOMAIN Credentials(path) THEN Credentials(path)[k] ELSE JNull])

\* a config after an earlier authorization
AuthorizedFile(path) ==
    JsonFile([k \in DOMAIN Credentials(path) \cup {"access_token", "refresh_token"} |->
                 IF k \in DOMAIN Credentials(path) THEN Credentials(path)[k]
                 ELSE IF k = "access_token" THEN JString(TokenPool[1])
                 ELSE JString(RefreshPool[1])])

InitFiles(path) ==
    {AbsentFile, JsonFile(Credentials(path)), TemplateFile(path), AuthorizedFile(path)}

Call(op, path, record_type) == [op |-> op, path |-> path, record_type |-> record_type]

Init ==
    /\ files \in {f \in [Paths -> UNION {InitFiles(p) : p \in Paths}] :
                     \A p \in Paths : f[p] \in InitFiles(p)}
    /\ callback_code = PyNone
    /\ pc = "idle"
    /\ frame = NoFrame
    /\ listener = NoListener
    /\ browser = <<>>
    /\ served = <<>>
    /\ call = Call("none", "", "")
    /\ http = <<>>
    /\ logs = <<>>
    /\ ret = NoResult

GetRecords(record_type, path, res1, tres, res2) ==
    /\ pc = "idle"
    /\ LET r == get_records(files, record_type, path, res1, tres, res2)
       IN  /\ files' = r.files
           /\ http' = r.http
           /\ logs' = r.logs
           /\ ret' = r.ret
    /\ call' = Call("get_records", path, record_type)
    /\ pc' = "returned"
    /\ UNCHANGED <<callback_code, frame, listener, browser, served>>

RefreshAccessTokens(path, res) ==
    /\ pc = "idle"
    /\ LET r == refresh_access_tokens(files, path, res)
       IN  /\ files' = r.files
           /\ http' = r.http
           /\ logs' = r.logs
    /\ ret' = Returned(PyNone)
    /\ call' = Call("refresh_access_tokens", path, "")
    /\ pc' = "returned"
    /\ UNCHANGED <<callback_code, frame, listener, browser, served>>

CheckConfig(path) ==
    /\ pc = "idle"
    /\ logs' = check_config(files, path)
    /\ http' = <<>>
    /\ ret' = Returned(PyNone)
    /\ call' = Call("check_config", path, "")
    /\ pc' = "returned"
    /\ UNCHANGED <<files, callback_code, frame, listener, browser, served>>

\* _get_callback_code entered with port: line 86
enter_callback(port, caller, path, params, entry_logs) ==
    /\ logs' = entry_logs
    /\ IF can_bind(port)
       THEN /\ listener' = Listener(port.n)
            /\ frame' = Frame(caller, path, params)
            /\ pc' = "bound"
            /\ ret' = NoResult
       ELSE /\ listener' = NoListener
            /\ frame' = NoFrame
            /\ pc' = "returned"
            /\ ret' = Raised("TypeError")
    /\ UNCHANGED <<files, callback_code, browser, served, http>>

\* Whoop._get_callback_code(config_filepath=path), port defaulted
GetCallbackCode(path) ==
    /\ pc = "idle"
    /\ call' = Call("_get_callback_code", path, "")
    /\ enter_callback(PyInt(DEFAULT_PORT), "direct", path, EmptyDict, <<>>)

\* Whoop.init_auth_flow(path), lines 119-123: the path is handed to
\* _get_callback_code as its first positional argument, port
InitAuthFlow(path) ==
    /\ pc = "idle"
    /\ call' = Call("init_auth_flow", path, "")
    /\ LET loaded == _load_config(files, path)
           params == setitem(loaded.config, "grant_type", PyStr("authorization_code"))
       IN  enter_callback(PyStr(path), "init_auth_flow", path, params, loaded.logs)

\* lines 88-105: the config is read from the default path
OpenBrowser ==
    /\ pc = "bound"
    /\ LET loaded == _load_config(files, DEFAULT_CONFIG)
           params == loaded.config
       IN  /\ logs' = logs \o loaded.logs
           /\ IF {"client_id", "redirect_uri"} \subseteq DOMAIN params
              THEN /\ browser' = <<auth_url(params)>>
                   /\ pc' = "waiting"
                   /\ UNCHANGED <<listener, frame, ret>>
              ELSE /\ browser' = browser
                   /\ pc' = "returned"
                   /\ listener' = server_close(listener)
                   /\ frame' = NoFrame
                   /\ ret' = Raised("KeyError")
    /\ UNCHANGED <<files, callback_code, served, call, http>>

\* lines 106-108: httpd.handle_request() takes one inbound request, the
\* listener is closed and the class attribute is returned; a caller
\* init_auth_flow goes on with the token exchange
HandleRequest(query, tres) ==
    /\ pc = "waiting"
    /\ LET handled == do_GET(callback_code, query)
           code == handled.callback_code
       IN  /\ callback_code' = code
           /\ served' = Append(served, [query |-> query, status |-> handled.status,
                                        body |-> handled.body])
           /\ IF frame.caller = "init_auth_flow"
              THEN LET r == exchange_code(files, frame.path, frame.params, code, tres)
                   IN  /\ files' = r.files
                       /\ http' = r.http
                       /\ logs' = logs \o r.logs
                       /\ ret' = r.ret
              ELSE /\ ret' = Returned(code)
                   /\ UNCHANGED <<files, http, logs>>
    /\ listener' = server_close(listener)
    /\ frame' = NoFrame
    /\ pc' = "returned"
    /\ UNCHANGED <<browser, call>>

\* the caller takes the result; the record of the finished operation is
\* dropped before the next call
Return ==
    /\ pc = "returned"
    /\ pc' = "idle"
    /\ call' = Call("none", "", "")
    /\ http' = <<>>
    /\ logs' = <<>>
    /\ ret' = NoResult
    /\ browser' = <<>>
    /\ served' = <<>>
    /\ UNCHANGED <<files, callback_code, frame, listener>>

\* the responses a call reads: the refresh POST and the second GET are made
\* only on the 401 branch, the token exchange only for init_auth_flow
NoTokenResponse == [status |-> 400, body |-> EmptyDict]
refresh_inputs(record_type, res1) ==
    IF url_is_bound(record_type) /\ needs_refresh(res1) THEN TokenResponses
    ELSE {NoTokenResponse}
retry_inputs(record_type, res1) ==
    IF url_is_bound(record_type) /\ needs_refresh(res1) THEN GetResponses ELSE {res1}
exchange_inputs == IF frame.caller = "init_auth_flow" THEN TokenResponses ELSE {NoTokenResponse}

Next ==
    \/ \E rt \in RecordTypes, p \in Paths, res1 \in GetResponses :
          \E tres \in refresh_inputs(rt, res1), res2 \in retry_inputs(rt, res1) :
            GetRecords(rt, p, res1, tres, res2)
    \/ \E p \in Paths, res \in TokenResponses : RefreshAccessTokens(p, res)
    \/ \E p \in Paths : CheckConfig(p)
    \/ \E p \in Paths : GetCallbackCode(p)
    \/ \E p \in Paths : InitAuthFlow(p)
    \/ OpenBrowser
    \/ \E q \in Queries, tres \in exchange_inputs : HandleRequest(q, tres)
    \/ Return

Spec == Init /\ [][Next]_vars

----------------------------------------------------------------------------
(* check_config over every config file on the five required keys *)

ConfigValues == {JNull, JString(""), JString("x")}
ConfigObjects ==
    UNION {[K -> ConfigValues] : K \in SUBSET {required_keys[i] : i \in 1..Len(required_keys)}}
ConfigFiles == {AbsentFile, InvalidFile} \cup {JsonFile(o) : o \in ConfigObjects}

InitConfig ==
    /\ \E f \in ConfigFiles :
          files = [p \in Paths |-> IF p = DEFAULT_CONFIG THEN f ELSE AbsentFile]
    /\ callback_code = PyNone
    /\ pc = "idle"
    /\ frame = NoFrame
    /\ listener = NoListener
    /\ browser = <<>>
    /\ served = <<>>
    /\ call = Call("none", "", "")
    /\ http = <<>>
    /\ logs = <<>>
    /\ ret = NoResult

NextConfig ==
    \/ \E p \in Paths : CheckConfig(p)
    \/ Return

SpecConfig == InitConfig /\ [][NextConfig]_vars

----------------------------------------------------------------------------
(* Properties *)

Done(op) == pc = "returned" /\ call.op = op

Methods(calls) == [i \in 1..Len(calls) |-> calls[i].method]

IsRefreshPost(c) ==
    /\ c.method = "POST"
    /\ c.url = TOKEN_URL
    /\ c.data["grant_type"] = PyStr("refresh_token")

HasLog(entries, level, msg) ==
    \E i \in 1..Len(entries) : entries[i].level = level /\ entries[i].msg = msg

\* a step that runs get_records from start to end
GetRecordsStep == pc = "idle" /\ pc' = "returned" /\ call'.op = "get_records"

\* C1: in one get_records call with a valid record type, a first GET
\* answered 401 is followed by exactly one refresh POST and then exactly one
\* more GET, whatever that second GET returns; a call never makes more than
\* two GETs or more than one refresh, and a second answer other than 200
\* yields the empty list.
C1_OneRefreshOneRetry ==
    (Done("get_records") /\ call.record_type \in ValidRecordTypes) =>
        /\ Len(http) >= 1
        /\ http[1].method = "GET"
        /\ Len(SelectSeq(http, LAMBDA c : c.method = "GET")) <= 2
        /\ Len(SelectSeq(http, LAMBDA c : c.method = "POST")) <= 1
        /\ http[1].status = 401 =>
              /\ Methods(http) = <<"GET", "POST", "GET">>
              /\ IsRefreshPost(http[2])
              /\ http[3].url = http[1].url
              /\ http[3].status # 200 => ret = Returned(<<>>)

C1_Witness ==
    /\ Done("get_records")
    /\ call.record_type \in ValidRecordTypes
    /\ Len(http) = 3
    /\ http[1].status = 401
    /\ http[3].status = 401
    /\ ret = Returned(<<>>)

\* C2: for a record type outside sleep, workout, profile and recovery,
\* get_records logs an error, makes no outbound HTTP call (no GET, no
\* refresh POST) and leaves the config store as it was.
C2_UnknownTypeNoRequest ==
    [][(GetRecordsStep /\ call'.record_type \notin ValidRecordTypes) =>
          /\ HasLog(logs', "error", "Invalid record type")
          /\ http' = <<>>
          /\ files' = files]_vars

C2_Witness ==
    /\ Done("get_records")
    /\ call.record_type = "cycle"
    /\ http = <<>>
    /\ ret.kind = "raise"

\* C3: for a valid record type, a first GET answered with a status other
\* than 200 and 401 makes get_records return the empty list without raising,
\* with no token refresh and no retry, and with the config store unchanged.
C3_OtherErrorEmptyList ==
    [][(/\ GetRecordsStep
        /\ call'.record_type \in ValidRecordTypes
        /\ http'[1].status \notin {200, 401}) =>
          /\ ret' = Returned(<<>>)
          /\ Methods(http') = <<"GET">>
          /\ HasLog(logs', "error", "Error fetching records")
          /\ files' = files]_vars

C3_Witness ==
    /\ Done("get_records")
    /\ call.record_type \in ValidRecordTypes
    /\ http[1].status = 500
    /\ ret = Returned(<<>>)

\* C4 (as claimed): when the stored config has no access token (the key is
\* absent or null), get_records logs the missing token and sends no GET to
\* the resource endpoint.
C4_NoTokenNoGet ==
    [][(/\ GetRecordsStep
        /\ call'.record_type \in ValidRecordTypes
        /\ get(_load_config(files, call'.path).config, "access_token") = PyNone) =>
          /\ HasLog(logs', "error", "Access token not found in config")
          /\ \A i \in 1..Len(http') : http'[i].method # "GET"]_vars

\* C5 (as claimed, a code parameter being one that carries a value): for the
\* one inbound GET of a listener run, a query string with a code parameter
\* has its first code value captured and answered 200; a query string
\* without one is answered 400, no value is captured and the run yields no
\* code.
CodeValues(query) ==
    SelectSeq(query, LAMBDA q : q.name = "code" /\ q.value # "")

C5_CallbackCaptureOrNone ==
    (Done("_get_callback_code") /\ Len(served) = 1) =>
        LET codes == CodeValues(served[1].query)
        IN  IF codes # <<>>
            THEN /\ served[1].status = 200
                 /\ callback_code = PyStr(codes[1].value)
                 /\ ret = Returned(PyStr(codes[1].value))
            ELSE /\ served[1].status = 400
                 /\ ret = Returned(PyNone)

\* C6 (as claimed): init_auth_flow run on a config holding client_id,
\* client_secret and redirect_uri, with a callback that delivers a code and a
\* token endpoint that answers success with tokens (A, R), completes, and the
\* config then holds access_token = A and refresh_token = R beside the three
\* unchanged client fields, with no grant_type or code key.
ClientKeys == {"client_id", "client_secret", "redirect_uri"}
TokenKeys == {"access_token", "refresh_token"}

HoldsClientFields(config) ==
    /\ ClientKeys \subseteq DOMAIN config
    /\ \A k \in ClientKeys : config[k].t = "str" /\ config[k].s # ""

\* the environment declined: the redirect carried no code, or the token
\* endpoint answered a failure or a body without both tokens
EnvironmentDeclined ==
    \/ \E i \in 1..Len(served) : served[i].status # 200
    \/ \E i \in 1..Len(http) :
          http[i].status >= 400 \/ ~(TokenKeys \subseteq DOMAIN http[i].body)

C6_AuthFlowStoresTokens ==
    (/\ Done("init_auth_flow")
     /\ HoldsClientFields(_load_config(files, call.path).config)
     /\ ~EnvironmentDeclined) =>
        LET config == _load_config(files, call.path).config
        IN  /\ ret = Returned(PyNone)
            /\ Len(http) = 1
            /\ DOMAIN config = ClientKeys \cup TokenKeys
            /\ config["access_token"] = http[1].body["access_token"]
            /\ config["refresh_token"] = http[1].body["refresh_token"]
            /\ \A k \in ClientKeys : config[k] = http[1].data[k]

\* a step that runs refresh_access_tokens from start to end
RefreshStep == pc = "idle" /\ pc' = "returned" /\ call'.op = "refresh_access_tokens"

\* C8: refresh_access_tokens overwrites access_token and refresh_token in the
\* config store with the values of the token response whatever its status (a
\* body without tokens stores null for both), and changes no other field of
\* the config and no other file.
C8_RefreshOverwritesTokensOnly ==
    [][RefreshStep =>
          LET path == call'.path
              body == http'[1].body
              new == _load_config(files', path).config
          IN  /\ files'[path].kind = "json"
              /\ DOMAIN new = DOMAIN files[path].obj \cup TokenKeys
              /\ new["access_token"] =
                    (IF "access_token" \in DOMAIN body THEN body["access_token"] ELSE PyNone)
              /\ new["refresh_token"] =
                    (IF "refresh_token" \in DOMAIN body THEN body["refresh_token"] ELSE PyNone)
              /\ \A k \in DOMAIN files[path].obj \ TokenKeys :
                    files'[path].obj[k] = files[path].obj[k]
              /\ \A q \in Paths \ {path} : files'[q] = files[q]]_vars

\* a failed refresh, sent with a working refresh token, left null tokens
C8_Witness ==
    /\ Done("refresh_access_tokens")
    /\ http[1].status = 400
    /\ http[1].body = EmptyDict
    /\ http[1].data["refresh_token"] = PyStr(RefreshPool[1])
    /\ files[call.path].obj["access_token"] = JNull
    /\ files[call.path].obj["refresh_token"] = JNull
    /\ files[call.path].obj["client_id"] = JString(client_id_of(call.path))

\* what check_config reported: the keys of its warning, or none
ReportedKeys ==
    LET warnings == SelectSeq(logs, LAMBDA e : e.level = "warning")
    IN  IF warnings = <<>> THEN <<>> ELSE warnings[1].keys

RequiredKeySet == {required_keys[i] : i \in 1..Len(required_keys)}

AbsentFromFile(f, key) == f.kind # "json" \/ key \notin DOMAIN f.obj
EmptyInFile(f, key) ==
    f.kind = "json" /\ key \in DOMAIN f.obj /\ f.obj[key] \in {JNull, JString("")}

\* C9 (as claimed): check_config reports a required key if and only if the
\* key is absent from the config file, and reports that all keys are present
\* when none is absent.
C9_ReportsExactlyAbsentKeys ==
    Done("check_config") =>
        LET absent == {k \in RequiredKeySet : AbsentFromFile(files[call.path], k)}
        IN  /\ {ReportedKeys[i] : i \in 1..Len(ReportedKeys)} = absent
            /\ absent = {} =>
                  HasLog(logs, "info", "All required configuration keys are present")

\* C9 (amended): check_config reports a required key if and only if the key
\* is absent from the config file or its value there is null or the empty
\* string; each such key is reported once, in the order of required_keys;
\* it reports that all keys are present exactly when there is no such key.
C9_ReportsMissingOrEmptyKeys ==
    Done("check_config") =>
        LET f == files[call.path]
            missing == {k \in RequiredKeySet : AbsentFromFile(f, k) \/ EmptyInFile(f, k)}
        IN  /\ {ReportedKeys[i] : i \in 1..Len(ReportedKeys)} = missing
            /\ Len(ReportedKeys) = Cardinality(missing)
            /\ ReportedKeys = SelectSeq(required_keys, LAMBDA k : k \in missing)
            /\ HasLog(logs, "warning", "Missing or empty keys in config") <=> missing # {}
            /\ HasLog(logs, "info", "All required configuration keys are present")
                  <=> missing = {}

\* a config whose keys are all in the file, two of them null or empty
C9_Witness ==
    /\ Done("check_config")
    /\ files[call.path].kind = "json"
    /\ DOMAIN files[call.path].obj = RequiredKeySet
    /\ files[call.path].obj["client_id"] = JString("x")
    /\ ReportedKeys = <<"client_secret", "refresh_token">>

\* C10: after an operation has written tokens to the config store,
\* _load_config yields, for access_token and refresh_token, the values that
\* were written (those of the token response, None for a token the body
\* lacks), and _fetch_access_token returns that access_token.
WroteTokens(i) ==
    /\ pc = "returned"
    /\ http[i].method = "POST"
    /\ call.op = "init_auth_flow" => http[i].status < 400

C10_TokensRoundTrip ==
    \A i \in 1..Len(http) :
        WroteTokens(i) =>
            LET body == http[i].body
                written(k) == IF k \in DOMAIN body THEN body[k] ELSE PyNone
                config == _load_config(files, call.path).config
            IN  /\ TokenKeys \subseteq DOMAIN config
                /\ config["access_token"] = written("access_token")
                /\ config["refresh_token"] = written("refresh_token")
                /\ _fetch_access_token(files, call.path).value = written("access_token")

\* a refresh answered with an access token and no refresh token: the reload
\* gives the token and None
C10_Witness ==
    /\ Done("refresh_access_tokens")
    /\ http[1].body = [k \in {"access_token"} |-> PyStr(TokenPool[2])]
    /\ _load_config(files, call.path).config["access_token"] = PyStr(TokenPool[2])
    /\ _load_config(files, call.path).config["refresh_token"] = PyNone
    /\ _fetch_access_token(files, call.path).value = PyStr(TokenPool[2])

\* C11: when the final GET of get_records is answered 200, the result for
\* sleep, workout and recovery is the records array of the response body
\* (the empty list when the body has no records key), and the result for
\* profile is a one-element list holding the whole response body.
C11_ResultOnSuccess ==
    (/\ Done("get_records")
     /\ call.record_type \in ValidRecordTypes
     /\ http[Len(http)].status = 200) =>
        LET body == http[Len(http)].body
        IN  /\ ret.kind = "return"
            /\ call.record_type = "profile" =>
                  Len(ret.value) = 1 /\ ret.value[1] = body
            /\ (call.record_type # "profile" /\ "records" \in DOMAIN body) =>
                  ret.value = body["records"]
            /\ (call.record_type # "profile" /\ "records" \notin DOMAIN body) =>
                  ret.value = <<>>

\* a profile fetched on the retry: the body comes back wrapped in a list
C11_Witness ==
    /\ Done("get_records")
    /\ call.record_type = "profile"
    /\ Len(http) = 3
    /\ http[3].status = 200
    /\ http[3].body = [user_id |-> "u1"]
    /\ ret = Returned(<<[user_id |-> "u1"]>>)

\* C12 (as claimed): in the authorization flow the local listener handles
\* exactly one inbound request and then shuts down; the token-endpoint POST
\* is never issued before that request has been handled; and the flow does
\* not go on without an inbound request: run on configs that hold the client
\* fields, init_auth_flow ends only after its listener has handled one.
C12_OneRequestThenExchange ==
    /\ Len(served) <= 1
    /\ pc \in {"idle", "returned"} => ~listener.bound
    /\ (call.op = "init_auth_flow" /\ http # <<>>) => Len(served) = 1
    /\ (/\ Done("init_auth_flow")
        /\ HoldsClientFields(_load_config(files, call.path).config)
        /\ HoldsClientFields(_load_config(files, DEFAULT_CONFIG).config)) =>
          Len(served) = 1

\* a step that calls init_auth_flow
InitAuthFlowStep == pc = "idle" /\ call'.op = "init_auth_flow"

\* C13 (as claimed): the authorization flow started by init_auth_flow binds
\* its callback listener to the fixed local port 8080, whatever
\* config_filepath it was called with.
C13_FlowBindsFixedPort ==
    [][InitAuthFlowStep => listener' = Listener(DEFAULT_PORT)]_vars

\* C14 (as claimed): the captured code does not persist between listener
\* runs: what a run of _get_callback_code returns is determined by that
\* run's inbound request alone, as if no earlier run had captured a code; a
\* run whose request has no code returns no code.
C14_NoCodeAcrossRuns ==
    (Done("_get_callback_code") /\ Len(served) = 1) =>
        ret = Returned(do_GET(PyNone, served[1].query).callback_code)

\* how a token value reads in the Authorization header and in the file
Bearer(v) == "Bearer " \o (IF v = PyNone THEN "None" ELSE v.s)
InFile(v) == IF v = PyNone THEN JNull ELSE JString(v.s)

\* C15: in get_records the retry GET after a 401 carries as bearer token the
\* access_token that the refresh has just written to the config store, not
\* the token of the first GET unless the refresh returned that same value.
C15_RetryCarriesRefreshedToken ==
    (Done("get_records") /\ Len(http) = 3) =>
        LET body == http[2].body
            written == IF "access_token" \in DOMAIN body THEN body["access_token"]
                       ELSE PyNone
        IN  /\ http[3].method = "GET"
            /\ http[3].auth = Bearer(written)
            /\ files[call.path].obj["access_token"] = InFile(written)
            /\ http[1].auth # Bearer(written) => http[3].auth # http[1].auth

\* a call that began with the first token and retried with the second
C15_Witness ==
    /\ Done("get_records")
    /\ Len(http) = 3
    /\ http[1].auth = "Bearer " \o TokenPool[1]
    /\ http[2].body = TokenPair(2)
    /\ http[3].auth = "Bearer " \o TokenPool[2]

\* C16: in _get_callback_code the listener is bound before the browser is
\* opened on the authorization URL and stays bound while the run waits for
\* the redirect, and it is closed on every path by which the run ends.
C16_BoundBeforeBrowserClosedAfter ==
    [][/\ (browser' # browser /\ browser' # <<>>) => (listener.bound /\ listener'.bound)
       /\ pc' = "waiting" => (listener'.bound /\ browser' # <<>>)
       /\ (served' # served /\ served' # <<>>) => listener.bound
       /\ pc' \in {"returned", "idle"} => ~listener'.bound]_vars

\* the run is waiting for the redirect: browser opened, listener bound
C16_Witness ==
    /\ call.op = "_get_callback_code"
    /\ pc = "waiting"
    /\ Len(browser) = 1
    /\ listener = Listener(DEFAULT_PORT)

\* C17 (as claimed): init_auth_flow called with config path P, the config at
\* P holding the client fields, opens the browser on an authorization URL
\* built from the client_id and redirect_uri of the config at P.
C17_UrlFromConfigAtPath ==
    (/\ Done("init_auth_flow")
     /\ HoldsClientFields(_load_config(files, call.path).config)) =>
        LET config == _load_config(files, call.path).config
        IN  /\ Len(browser) = 1
            /\ browser[1].client_id = config["client_id"]
            /\ browser[1].redirect_uri = config["redirect_uri"]

\* a step in which the listener handles its request
HandleStep == pc = "waiting" /\ pc' = "returned"

WithoutState(query) == SelectSeq(query, LAMBDA q : q.name # "state")

\* C18: what the callback handler does with a request (the code it captures,
\* the status it answers) is what it does with the same request without its
\* state parameters: requests with the same code parameters and different,
\* or no, state values are treated alike, and a request that carries a code
\* is answered 200 whatever its state.
C18_StateIgnored ==
    [][HandleStep =>
          LET query == served'[1].query
              plain == do_GET(callback_code, WithoutState(query))
          IN  /\ served'[1].status = plain.status
              /\ callback_code' = plain.callback_code
              /\ CodeValues(query) # <<>> =>
                    /\ served'[1].status = 200
                    /\ callback_code' = PyStr(CodeValues(query)[1].value)]_vars

\* a redirect with a state other than the one sent in the authorization URL
\* is accepted
C18_Witness ==
    /\ Done("_get_callback_code")
    /\ Len(browser) = 1
    /\ Len(served) = 1
    /\ browser[1].state = Whoop_STATE
    /\ served[1].query = <<[name |-> "code", value |-> CodePool[1]],
                           [name |-> "state", value |-> "forged"]>>
    /\ served[1].status = 200
    /\ callback_code = PyStr(CodePool[1])

====
